---- MODULE Spec2Model ----
(***************************************************************************)
(* promptyoself: the schedule store (db.py), the execution pass            *)
(* (scheduler.execute_due_prompts), the delivery gateway                   *)
(* (letta_client.send_prompt_to_agent) and registration                    *)
(* (cli.register_prompt).                                                  *)
(*                                                                         *)
(* Instants are natural numbers; Python's None is the number None.         *)
(* Strings that the code parses (time strings, cron expressions, interval  *)
(* strings) are sequences of one-character strings.                        *)
(***************************************************************************)
EXTENDS Integers, Sequences, FiniteSets, TLC

\* ---------------------------------------------------------------- bounds
MaxSchedules == 2
MaxIntervals == 2
MaxNumber == 12
MaxPeriod == 6
MaxBase == 12
MaxTime == 1
MaxDelivered == 1
MaxStarts == 2

\* ------------------------------------------------------------ vocabulary
None == -999

Agents == {"agent-1", "agent-2"}
PromptOf(agent) == IF agent = "agent-1" THEN "prompt-1" ELSE "prompt-2"
Executors == {"loop", "cli"}

Instants == 0..MaxTime

\* ------------------------------------------------------- text <-> values
Digits == <<"0", "1", "2", "3", "4", "5", "6", "7", "8", "9">>

IsDigit(c) == \E d \in 1..10 : Digits[d] = c

DigitVal(c) == (CHOOSE d \in 1..10 : Digits[d] = c) - 1

RECURSIVE NatText(_)
NatText(n) == IF n < 10 THEN <<Digits[n + 1]>>
              ELSE Append(NatText(n \div 10), Digits[(n % 10) + 1])

RECURSIVE DigitsVal(_)
DigitsVal(s) == IF s = <<>> THEN 0
                ELSE 10 * DigitsVal(SubSeq(s, 1, Len(s) - 1)) + DigitVal(s[Len(s)])

AllDigits(s) == Len(s) > 0 /\ \A k \in 1..Len(s) : IsDigit(s[k])

\* Python int(text): an optional sign followed by decimal digits; anything
\* else raises ValueError.
IntValid(s) == IF Len(s) > 0 /\ s[1] = "-" THEN AllDigits(Tail(s)) ELSE AllDigits(s)

IntOf(s) == IF s[1] = "-" THEN 0 - DigitsVal(Tail(s)) ELSE DigitsVal(s)

\* datetime.isoformat(): the instant t is written "T<t>".
IsoFormat(t) == <<"T">> \o NatText(t)

\* dateutil.parser.parse: the inverse of IsoFormat; other text raises.
DateValid(s) == Len(s) > 1 /\ s[1] = "T" /\ AllDigits(Tail(s))

DateParse(s) == DigitsVal(Tail(s))

\* --------------------------------------------------------------- db.py
Columns == {"id", "agent_id", "prompt_text", "schedule_type", "schedule_value",
            "next_run", "active", "created_at", "last_run"}

\* Reading an attribute of a row object: a name that is not a mapped column
\* raises AttributeError.
HasAttr(row, name) == name \in DOMAIN row

\* PromptSchedule(...) followed by commit: the primary key is the next
\* integer, active defaults to True, created_at to utcnow(), last_run to NULL.
PromptSchedule(st, kw, t) ==
    [id |-> Len(st) + 1,
     agent_id |-> kw.agent_id,
     prompt_text |-> kw.prompt_text,
     schedule_type |-> kw.schedule_type,
     schedule_value |-> kw.schedule_value,
     next_run |-> kw.next_run,
     active |-> TRUE,
     created_at |-> t,
     last_run |-> None]

AddScheduleParams == {"agent_id", "prompt_text", "schedule_type", "schedule_value", "next_run"}

\* add_schedule as it would be if the row were committed before the
\* unexpected keyword is rejected.
AddScheduleOpWritesThenRaises(st, kw, t) ==
    [store |-> Append(st, PromptSchedule(st, kw, t)),
     ret |-> IF DOMAIN kw = AddScheduleParams THEN Len(st) + 1 ELSE None,
     raised |-> DOMAIN kw # AddScheduleParams]

\* add_schedule(**kw): a keyword the signature does not have raises TypeError
\* before anything is written.
AddScheduleOp(st, kw, t) ==
    IF DOMAIN kw = AddScheduleParams
    THEN [store |-> Append(st, PromptSchedule(st, kw, t)), ret |-> Len(st) + 1, raised |-> FALSE]
    ELSE [store |-> st, ret |-> None, raised |-> TRUE]

Ids(st) == 1..Len(st)

\* get_schedule(schedule_id)
GetSchedule(st, id) == IF id \in Ids(st) THEN st[id] ELSE None

\* update_schedule(schedule_id, **kwargs): setattr for every key, then
\* commit; only mapped columns reach the table.
UpdateRow(row, data) ==
    [c \in DOMAIN row |-> IF c \in DOMAIN data THEN data[c] ELSE row[c]]

\* update_schedule as it would be if it reported success without testing
\* that the row exists.
UpdateScheduleOpUnchecked(st, id, data) ==
    [store |-> IF id \in Ids(st) THEN [st EXCEPT ![id] = UpdateRow(st[id], data)] ELSE st,
     ret |-> TRUE]

\* update_schedule as it would be if the query had no filter on the id and
\* the attributes were set on every row.
UpdateScheduleOpEveryRow(st, id, data) ==
    IF id \in Ids(st)
    THEN [store |-> [i \in DOMAIN st |-> UpdateRow(st[i], data)], ret |-> TRUE]
    ELSE [store |-> st, ret |-> FALSE]

UpdateScheduleOp(st, id, data) ==
    IF id \in Ids(st)
    THEN [store |-> [st EXCEPT ![id] = UpdateRow(st[id], data)], ret |-> TRUE]
    ELSE [store |-> st, ret |-> FALSE]

\* The cancel update as it would be if cancelling also cleared next_run.
CancelDataClearsNextRun == [active |-> FALSE, next_run |-> None]

\* cancel_schedule(schedule_id)
CancelData == [active |-> FALSE]

\* cancel_schedule as it would be if cancelling deleted the row.
CancelScheduleOpDeletes(st, id) ==
    LET Keep(row) == row.id # id
    IN [store |-> SelectSeq(st, Keep), ret |-> id \in Ids(st)]

CancelScheduleOp(st, id) == UpdateScheduleOp(st, id, CancelData)

\* The due test as it would be with < in place of <=.
IsDueStrictlyBefore(row, t) == row.active = TRUE /\ row.next_run < t

\* get_due_schedules(): rows in table order.
IsDue(row, t) == row.active = TRUE /\ row.next_run <= t

GetDueSchedules(st, t) == LET Test(row) == IsDue(row, t) IN SelectSeq(st, Test)

\* The row filter as it would be if active_only were ignored.
MatchesIgnoringActive(row, agent, activeOnly) == agent # "" => row.agent_id = agent

\* list_schedules, lines 60-63: the agent filter is applied when agent_id is
\* truthy, the active filter when active_only is.
Matches(row, agent, activeOnly) ==
    /\ agent # "" => row.agent_id = agent
    /\ activeOnly => row.active = TRUE

\* order_by(PromptSchedule.next_run): the orders in which the rows with the
\* ids of the set can come back; rows with equal next_run come in any order.
OrderByNextRun(st, ids) ==
    {q \in [1..Cardinality(ids) -> ids] :
        /\ \A j, k \in 1..Cardinality(ids) : j # k => q[j] # q[k]
        /\ \A j, k \in 1..Cardinality(ids) : j < k => st[q[j]].next_run <= st[q[k]].next_run}

\* The dictionary list_schedules builds from a row, lines 67-77.
ScheduleDict(row) ==
    [id |-> row.id, agent_id |-> row.agent_id, prompt_text |-> row.prompt_text,
     schedule_type |-> row.schedule_type, schedule_value |-> row.schedule_value,
     next_run |-> IsoFormat(row.next_run), active |-> row.active,
     created_at |-> IsoFormat(row.created_at),
     last_run |-> IF row.last_run # None THEN IsoFormat(row.last_run) ELSE <<>>]

\* list_schedules(agent_id, active_only): the lists it can return.
ListSchedules(st, agent, activeOnly) ==
    {[k \in DOMAIN q |-> ScheduleDict(st[q[k]])] :
        q \in OrderByNextRun(st, {i \in Ids(st) : Matches(st[i], agent, activeOnly)})}

\* ------------------------------------------------------ letta_client.py
GatewayOutcomes == {"ok", "no_api_key", "remote_error"}

\* send_prompt_to_agent: True when messages.create returned, False when
\* the client could not be built or the call raised.
SendPromptToAgent(outcome) == outcome = "ok"

\* test_letta_connection(): the agents could be listed, or the status dict
\* of the except branch.
TestLettaConnection(outcome) ==
    IF outcome = "ok"
    THEN [status |-> "success", message |-> "Connection to Letta server successful"]
    ELSE [status |-> "error", message |-> "Failed to connect to Letta server"]

\* list_available_agents(): the agent list, or the status dict of the
\* except branch.
ListAvailableAgents(outcome) ==
    IF outcome = "ok"
    THEN [status |-> "success", count |-> Cardinality(Agents)]
    ELSE [status |-> "error", message |-> "Failed to list agents"]

\* ----------------------------------------------------------- scheduler.py
\* A cron expression "*/k" matches the instants that are multiples of k.
CronValid(e) == Len(e) > 2 /\ e[1] = "*" /\ e[2] = "/"
                /\ AllDigits(SubSeq(e, 3, Len(e))) /\ DigitsVal(SubSeq(e, 3, Len(e))) > 0

CronPeriod(e) == DigitsVal(SubSeq(e, 3, Len(e)))

\* The cron computation as it would be if a base instant that matches the
\* expression were returned itself.
CalculateNextRunNotStrict(e, base) ==
    ((base + CronPeriod(e) - 1) \div CronPeriod(e)) * CronPeriod(e)

\* calculate_next_run(cron_expr, base_time): croniter(...).get_next.
CalculateNextRun(e, base) == ((base \div CronPeriod(e)) + 1) * CronPeriod(e)

EndsWith(s, c) == Len(s) > 0 /\ s[Len(s)] = c

ButLast(s) == SubSeq(s, 1, Len(s) - 1)

\* The interval parse shared by calculate_next_run_for_schedule and
\* register_prompt: suffix s, m or h, no suffix means seconds; int() raises
\* ValueError on anything that is not an integer.
\* The interval parse as it would be if minutes were taken for seconds.
IntervalUnitMinuteIsSecond(s) == IF EndsWith(s, "h") THEN 3600 ELSE 1

IntervalUnit(s) == IF EndsWith(s, "s") THEN 1
                   ELSE IF EndsWith(s, "m") THEN 60
                   ELSE IF EndsWith(s, "h") THEN 3600
                   ELSE 1

IntervalNumber(s) == IF EndsWith(s, "s") \/ EndsWith(s, "m") \/ EndsWith(s, "h")
                     THEN ButLast(s) ELSE s

IntervalValid(s) == IntValid(IntervalNumber(s))

IntervalSeconds(s) == IntOf(IntervalNumber(s)) * IntervalUnit(s)

\* calculate_next_run_for_schedule(schedule) read at instant t.
CalculateNextRunForSchedule(s, t) ==
    IF s.schedule_type = "once" THEN [raised |-> FALSE, value |-> None]
    ELSE IF s.schedule_type = "cron"
         THEN [raised |-> FALSE, value |-> CalculateNextRun(s.schedule_value, t)]
    ELSE IF s.schedule_type = "interval"
         THEN IF IntervalValid(s.schedule_value)
              THEN [raised |-> FALSE, value |-> t + IntervalSeconds(s.schedule_value)]
              ELSE [raised |-> TRUE, value |-> None]
    ELSE [raised |-> TRUE, value |-> None]

\* A text-valued result field that holds None.
NullText == <<>>

FailedResult(s) ==
    [id |-> s.id, agent_id |-> s.agent_id, delivered |-> FALSE,
     error |-> "Failed to deliver prompt", next_run |-> IsoFormat(s.next_run)]

ErrorResult(s, e) ==
    [id |-> s.id, agent_id |-> s.agent_id, delivered |-> FALSE,
     error |-> e, next_run |-> IsoFormat(s.next_run)]

DeliveredResult(s, new, nextRun) ==
    [id |-> s.id, agent_id |-> s.agent_id, delivered |-> TRUE,
     next_run |-> IF nextRun # None THEN IsoFormat(nextRun) ELSE NullText,
     repetition_count |-> new,
     max_repetitions |-> s.max_repetitions,
     completed |-> (s.max_repetitions # None /\ new >= s.max_repetitions)]

\* The failure branch as it would be if the update wrote the active flag of
\* the selected snapshot back.
FailureUpdateWritesActive(t) == [last_run |-> t, active |-> TRUE]

\* The failure branch as it would be if a failed delivery pulled next_run
\* back to the instant of the attempt.
FailureUpdateRewindsNextRun(t) == [last_run |-> t, next_run |-> t - 1]

\* The failure branch as it would be if a failed delivery also deactivated
\* the schedule.
FailureUpdateDeactivates(t) == [last_run |-> t, active |-> FALSE]

\* execute_due_prompts, lines 67-69 and 100-108: after a failed delivery only
\* last_run is updated.
FailureUpdate(t) == [last_run |-> t]

\* execute_due_prompts, the try block up to the call of update_schedule for
\* one schedule s whose gateway call returned success, at instant t:
\* the update data, the results appended, and whether it raised.
TryBlock(s, success, t) ==
    IF ~success
    THEN [raised |-> FALSE, error |-> "", data |-> FailureUpdate(t), results |-> <<FailedResult(s)>>]
    ELSE IF ~HasAttr(s, "repetition_count") \/ ~HasAttr(s, "max_repetitions")
    THEN [raised |-> TRUE, error |-> "AttributeError", data |-> FailureUpdate(t), results |-> <<>>]
    ELSE LET new == s.repetition_count + 1
             d1 == [last_run |-> t, repetition_count |-> new]
             capped == s.max_repetitions # None /\ new >= s.max_repetitions
             calc == CalculateNextRunForSchedule(s, t)
         IN IF capped
            THEN [raised |-> FALSE, error |-> "", data |-> d1 @@ [active |-> FALSE],
                  results |-> <<DeliveredResult(s, new, None)>>]
            ELSE IF calc.raised
            THEN [raised |-> TRUE, error |-> "ValueError", data |-> d1, results |-> <<>>]
            ELSE IF calc.value # None
            THEN [raised |-> FALSE, error |-> "", data |-> d1 @@ [next_run |-> calc.value],
                  results |-> <<DeliveredResult(s, new, calc.value)>>]
            ELSE [raised |-> FALSE, error |-> "", data |-> d1 @@ [active |-> FALSE],
                  results |-> <<DeliveredResult(s, new, None)>>]

\* The iteration as it would be if an exception of update_schedule were
\* swallowed without a result entry.
ProcessScheduleSwallowsUpdateError(st, s, success, updateRaises, t) ==
    LET o == TryBlock(s, success, t)
    IN IF o.raised
       THEN [store |-> st, raised |-> TRUE,
             results |-> o.results \o <<ErrorResult(s, o.error)>>]
       ELSE IF updateRaises
       THEN [store |-> st, raised |-> FALSE, results |-> o.results]
       ELSE [store |-> UpdateScheduleOp(st, s.id, o.data).store, raised |-> FALSE,
             results |-> o.results]

\* One iteration of the for loop of execute_due_prompts: try block,
\* update_schedule (which raises when updateRaises), except handler.
ProcessSchedule(st, s, success, updateRaises, t) ==
    LET o == TryBlock(s, success, t)
    IN IF o.raised
       THEN [store |-> st, raised |-> TRUE,
             results |-> o.results \o <<ErrorResult(s, o.error)>>]
       ELSE IF updateRaises
       THEN [store |-> st, raised |-> TRUE,
             results |-> o.results \o <<ErrorResult(s, "OperationalError")>>]
       ELSE [store |-> UpdateScheduleOp(st, s.id, o.data).store, raised |-> FALSE,
             results |-> o.results]

\* The loop as it would be if an iteration that raised were tried again.
AfterIterationRetries(i, n, raised) == IF raised THEN i ELSE i + 1

\* The loop as it would be without the try/except: an exception ends it.
AfterIterationAborts(i, n, raised) == IF raised THEN n + 1 ELSE i + 1

\* The for loop with the try/except inside it: an exception raised while
\* schedule i of n is processed is caught and the loop goes on with i + 1.
AfterIteration(i, n, raised) == i + 1

\* ------------------------------------------------------------------ cli.py
\* An argument that was not given is the empty text (or None for
\* max_repetitions); both are falsy.
Truthy(text) == text # <<>>

CountTruthy(a, b, c) ==
    (IF Truthy(a) THEN 1 ELSE 0) + (IF Truthy(b) THEN 1 ELSE 0) + (IF Truthy(c) THEN 1 ELSE 0)

RegError(msg) == [error |-> msg]

RegSuccess(id, nextRun) == [status |-> "success", id |-> id, next_run |-> IsoFormat(nextRun)]

\* max_repetitions = args.get("max_repetitions") or args.get("max-repetitions"):
\* the value 0 is falsy and becomes None.
MaxRepetitionsArg(m) == IF m = None \/ m = 0 THEN None ELSE m

\* The instant test as it would be with < in place of <=.
NotInFutureStrict(instant, t) == instant < t

\* register_prompt, lines 56 and 90: next_run <= datetime.utcnow().
NotInFuture(instant, t) == instant <= t

\* register_prompt, lines 53-95: the schedule the arguments describe, or the
\* error returned, or the exception raised, at instant t.
ScheduleFromArgs(args, t) ==
    IF Truthy(args.time)
    THEN IF ~DateValid(args.time)
         THEN [kind |-> "raise", error |-> "ParserError"]
         ELSE IF NotInFuture(DateParse(args.time), t)
         THEN [kind |-> "error", error |-> "Scheduled time must be in the future"]
         ELSE [kind |-> "ok", schedule_type |-> "once", schedule_value |-> args.time,
               next_run |-> DateParse(args.time)]
    ELSE IF Truthy(args.cron)
    THEN IF ~CronValid(args.cron)
         THEN [kind |-> "error", error |-> "Invalid cron expression"]
         ELSE [kind |-> "ok", schedule_type |-> "cron", schedule_value |-> args.cron,
               next_run |-> CalculateNextRun(args.cron, t)]
    ELSE IF ~IntervalValid(args.every)
         THEN [kind |-> "error", error |-> "Invalid interval format"]
         ELSE IF Truthy(args.start_at)
         THEN IF ~DateValid(args.start_at)
              THEN [kind |-> "error", error |-> "Invalid interval format"]
              ELSE IF NotInFuture(DateParse(args.start_at), t)
              THEN [kind |-> "error", error |-> "Start time must be in the future"]
              ELSE [kind |-> "ok", schedule_type |-> "interval", schedule_value |-> args.every,
                    next_run |-> DateParse(args.start_at)]
         ELSE [kind |-> "ok", schedule_type |-> "interval", schedule_value |-> args.every,
               next_run |-> t + IntervalSeconds(args.every)]

\* register_prompt(args) at instant t; agentValid is the answer of
\* validate_agent_exists.
RegisterPromptOp(st, args, agentValid, t) ==
    LET maxRep == MaxRepetitionsArg(args.max_repetitions)
        sch == ScheduleFromArgs(args, t)
        added == AddScheduleOp(st,
                               [agent_id |-> args.agent_id, prompt_text |-> args.prompt,
                                schedule_type |-> sch.schedule_type,
                                schedule_value |-> sch.schedule_value,
                                next_run |-> sch.next_run,
                                max_repetitions |-> maxRep], t)
    IN IF args.agent_id = "" \/ args.prompt = ""
       THEN [store |-> st, result |-> RegError("Missing required arguments: agent-id and prompt")]
       ELSE IF CountTruthy(args.time, args.cron, args.every) = 0
       THEN [store |-> st, result |-> RegError("Must specify one of --time, --cron, or --every")]
       ELSE IF CountTruthy(args.time, args.cron, args.every) > 1
       THEN [store |-> st, result |-> RegError("Cannot specify multiple scheduling options")]
       ELSE IF ~args.skip_validation /\ ~agentValid
       THEN [store |-> st, result |-> RegError("Agent validation failed")]
       ELSE IF sch.kind = "raise"
       THEN [store |-> st, result |-> RegError("Failed to register prompt")]
       ELSE IF sch.kind = "error"
       THEN [store |-> st, result |-> RegError(sch.error)]
       ELSE IF maxRep # None /\ maxRep <= 0
       THEN [store |-> st, result |-> RegError("max-repetitions must be a positive integer")]
       ELSE IF added.raised
       THEN [store |-> added.store, result |-> RegError("Failed to register prompt")]
       ELSE [store |-> added.store, result |-> RegSuccess(added.ret, sch.next_run)]

\* cli.list_prompts(args): the results it can return; raises tells whether
\* the store query raised.
ListPromptsOp(st, agent, showAll, raises) ==
    IF raises
    THEN {RegError("Failed to list prompts")}
    ELSE {[status |-> "success", schedules |-> l, count |-> Len(l)] :
             l \in ListSchedules(st, agent, ~showAll)}

\* cli.execute_prompts(args) without --loop: the results of the pass.
ExecutePromptsResult(results) ==
    [status |-> "success", executed |-> results, count |-> Len(results)]

\* cli.main, line 315: the exit code of the process for a command result.
ExitCode(result) ==
    IF ("status" \in DOMAIN result /\ result.status = "success") \/ "error" \notin DOMAIN result
    THEN 0 ELSE 1

\* cli.main, lines 310-315: the command has run, its result is printed and
\* the process is about to exit with its code.
MainExit(command, result) ==
    [op |-> "main", command |-> command, result |-> result, exit |-> ExitCode(result)]

\* ------------------------------------------------------------------ state
VARIABLES
    store,      \* the schedules table, in primary-key order
    now,        \* datetime.utcnow()
    pc,         \* per executor: "idle" or "running" (inside execute_due_prompts)
    due,        \* per executor: due_schedules of its current or last pass
    idx,        \* per executor: position of the for loop in due
    executed,   \* per executor: the executed list of its current or last pass
    ref,        \* per executor: the instant at which due was selected
    calls,      \* per executor: the gateway calls of its current or last pass
    delivered,  \* per schedule id: successful gateway deliveries so far
    reg,        \* the last register_prompt call: its arguments and its result
    api,        \* the call or CLI command in flight: operation, arguments and result
    calc,       \* the last next-run computation: its inputs and its result
    drv         \* the PromptScheduler object and the position of run_loop

vars == <<store, now, pc, due, idx, executed, ref, calls, delivered, reg, api, calc, drv>>

passVars == <<pc, due, idx, executed, ref, calls>>

\* The schedules the callers of add_schedule create.
ScheduleInputs ==
    {[agent_id |-> "agent-1", schedule_type |-> "once", schedule_value |-> <<"T", "1">>],
     [agent_id |-> "agent-2", schedule_type |-> "cron", schedule_value |-> <<"*", "/", "2">>],
     [agent_id |-> "agent-1", schedule_type |-> "interval", schedule_value |-> <<"1", "s">>]}

\* Before any register_prompt call.
NoCall == <<>>

\* PromptScheduler.__init__ with run_loop not yet entered: no scheduler, not
\* running; elapsed and fired count the intervals that have elapsed and the
\* timer firings since start, caught the exceptions _execute_job has caught,
\* stops the scheduler shutdowns performed by stop; exc is what ended the
\* loop and midpass records that stop was called while a pass was running;
\* created counts the BackgroundScheduler objects constructed by start and
\* jobs the jobs added to the one self.scheduler refers to.
PromptSchedulerInit ==
    [loop |-> "new", running |-> FALSE, sched |-> "none", elapsed |-> 0, fired |-> 0,
     caught |-> 0, stops |-> 0, exc |-> "none", midpass |-> FALSE, created |-> 0, jobs |-> 0]

Init ==
    /\ store = <<>>
    /\ now = 0
    /\ pc = [p \in Executors |-> "idle"]
    /\ due = [p \in Executors |-> <<>>]
    /\ idx = [p \in Executors |-> 1]
    /\ executed = [p \in Executors |-> <<>>]
    /\ ref = [p \in Executors |-> 0]
    /\ calls = [p \in Executors |-> <<>>]
    /\ delivered = [i \in 1..MaxSchedules |-> 0]
    /\ reg = NoCall
    /\ api = NoCall
    /\ calc = NoCall
    /\ drv = PromptSchedulerInit

\* The clock advances.
Tick ==
    /\ now < MaxTime
    /\ now' = now + 1
    /\ UNCHANGED <<store, passVars, delivered, reg, api, calc, drv>>

\* db.add_schedule called with its five arguments.
AddSchedule ==
    /\ Len(store) < MaxSchedules
    /\ \E sp \in ScheduleInputs, nextRun \in Instants :
            store' = AddScheduleOp(store,
                                   [agent_id |-> sp.agent_id, prompt_text |-> PromptOf(sp.agent_id),
                                    schedule_type |-> sp.schedule_type,
                                    schedule_value |-> sp.schedule_value,
                                    next_run |-> nextRun], now).store
    /\ UNCHANGED <<now, passVars, delivered, reg, api, calc, drv>>

\* db.cancel_schedule(id)
CancelSchedule ==
    /\ \E id \in 1..MaxSchedules : store' = CancelScheduleOp(store, id).store
    /\ UNCHANGED <<now, passVars, delivered, reg, api, calc, drv>>

\* execute_due_prompts, lines 54-55: select the due set.
BeginPass(p) ==
    /\ pc[p] = "idle"
    /\ pc' = [pc EXCEPT ![p] = "running"]
    /\ due' = [due EXCEPT ![p] = GetDueSchedules(store, now)]
    /\ ref' = [ref EXCEPT ![p] = now]
    /\ UNCHANGED <<store, now, idx, executed, calls, delivered, reg, api, calc, drv>>

\* execute_due_prompts, lines 59-120: one iteration of the loop.
Step(p) ==
    /\ pc[p] = "running"
    /\ idx[p] <= Len(due[p])
    /\ LET s == due[p][idx[p]] IN
       \E outcome \in GatewayOutcomes, updateRaises \in BOOLEAN :
          LET success == SendPromptToAgent(outcome)
              r == ProcessSchedule(store, s, success, updateRaises, now)
          IN /\ success => delivered[s.id] < MaxDelivered
             /\ store' = r.store
             /\ executed' = [executed EXCEPT ![p] = @ \o r.results]
             /\ calls' = [calls EXCEPT ![p] =
                            Append(@, [agent_id |-> s.agent_id, prompt_text |-> s.prompt_text,
                                       ok |-> success])]
             /\ delivered' = [delivered EXCEPT ![s.id] = IF success THEN @ + 1 ELSE @]
             /\ idx' = [idx EXCEPT ![p] = AfterIteration(@, Len(due[p]), r.raised)]
    /\ UNCHANGED <<now, pc, due, ref, reg, api, calc, drv>>

\* execute_due_prompts, line 122: return executed.
EndPass(p) ==
    /\ pc[p] = "running"
    /\ idx[p] > Len(due[p])
    /\ pc' = [pc EXCEPT ![p] = "idle"]
    /\ due' = [due EXCEPT ![p] = <<>>]
    /\ idx' = [idx EXCEPT ![p] = 1]
    /\ executed' = [executed EXCEPT ![p] = <<>>]
    /\ ref' = [ref EXCEPT ![p] = 0]
    /\ calls' = [calls EXCEPT ![p] = <<>>]
    /\ UNCHANGED <<store, now, delivered, reg, api, calc, drv>>

\* The arguments register_prompt is called with: who, when, and the options.
WhoArgs ==
    {[agent_id |-> "agent-1", prompt |-> "prompt-1"],
     [agent_id |-> "", prompt |-> "prompt-1"],
     [agent_id |-> "agent-1", prompt |-> ""]}

NoText == <<>>

WhenArgs ==
    {[time |-> NoText, cron |-> NoText, every |-> NoText],
     [time |-> <<"T", "3">>, cron |-> NoText, every |-> NoText],
     [time |-> <<"T", "1">>, cron |-> NoText, every |-> NoText],
     [time |-> <<"T", "0">>, cron |-> NoText, every |-> NoText],
     [time |-> <<"n", "o", "w">>, cron |-> NoText, every |-> NoText],
     [time |-> NoText, cron |-> <<"*", "/", "2">>, every |-> NoText],
     [time |-> NoText, cron |-> <<"*", "/", "0">>, every |-> NoText],
     [time |-> NoText, cron |-> NoText, every |-> <<"1", "s">>],
     [time |-> NoText, cron |-> NoText, every |-> <<"2">>],
     [time |-> NoText, cron |-> NoText, every |-> <<"1", "m">>],
     [time |-> NoText, cron |-> NoText, every |-> <<"1", "h">>],
     [time |-> NoText, cron |-> NoText, every |-> <<"0", "s">>],
     [time |-> NoText, cron |-> NoText, every |-> <<"-", "1", "s">>],
     [time |-> NoText, cron |-> NoText, every |-> <<"x", "s">>],
     [time |-> <<"T", "3">>, cron |-> <<"*", "/", "2">>, every |-> NoText],
     [time |-> NoText, cron |-> <<"*", "/", "2">>, every |-> <<"1", "s">>]}

OptionArgs ==
    [skip_validation : BOOLEAN,
     max_repetitions : {None, -1, 0, 2},
     start_at : {NoText, <<"T", "3">>, <<"T", "1">>, <<"T", "0">>, <<"n", "o", "w">>}]

RegisterArgs == {who @@ when @@ opt : who \in WhoArgs, when \in WhenArgs, opt \in OptionArgs}

\* cli.register_prompt(args): the command runs and its result is printed.
RegisterPrompt ==
    /\ reg = NoCall
    /\ \E args \in RegisterArgs, agentValid \in BOOLEAN :
          LET r == RegisterPromptOp(store, args, agentValid, now)
          IN /\ Len(r.store) <= MaxSchedules
             /\ store' = r.store
             /\ reg' = [args |-> args, result |-> r.result]
    /\ UNCHANGED <<now, passVars, delivered, api, calc, drv>>

\* cli.main, lines 310-315: the process prints the result and exits.
CliExit ==
    /\ reg # NoCall
    /\ reg' = NoCall
    /\ UNCHANGED <<store, now, passVars, delivered, api, calc, drv>>

Pass(p) == BeginPass(p) \/ Step(p) \/ EndPass(p)

Next ==
    \/ Tick
    \/ AddSchedule
    \/ CancelSchedule
    \/ Pass("loop")

Spec == Init /\ [][Next]_vars

\* The command line used for registration: register, and the clock.
NextCli ==
    \/ Tick
    \/ RegisterPrompt
    \/ CliExit

SpecCli == Init /\ [][NextCli]_vars

\* ------------------------------------------------- store calls with results
\* cli.cancel_prompt, lines 162-169: the two results.
CancelSuccess(id) == [status |-> "success", cancelled_id |-> id]

CancelNotFound(id) == [error |-> "not found or already cancelled", id |-> id]

\* cli.cancel_prompt(args): a falsy id is missing, int() of the id raises
\* ValueError on text that is not a number, then cancel_schedule decides.
CancelPromptOp(st, idText) ==
    IF ~Truthy(idText)
    THEN [store |-> st, result |-> RegError("Missing required argument: id")]
    ELSE IF ~IntValid(idText)
    THEN [store |-> st, result |-> RegError("Schedule ID must be a number")]
    ELSE LET id == IntOf(idText)
             c == CancelScheduleOp(st, id)
         IN  [store |-> c.store,
              result |-> IF c.ret THEN CancelSuccess(id) ELSE CancelNotFound(id)]

\* Ids passed to the store functions: every id in use and one that is not.
IdInputs == 1..(MaxSchedules + 1)

\* The --id argument of the cancel command.
IdTexts == {NoText, <<"x">>} \cup {NatText(i) : i \in 0..(MaxSchedules + 1)}

\* Keyword arguments passed to update_schedule at instant t.
UpdateInputs(t) == {[last_run |-> t], [next_run |-> t]}

\* db.get_schedule(id)
GetScheduleCall ==
    /\ api = NoCall
    /\ \E id \in IdInputs :
          api' = [op |-> "get", id |-> id, ret |-> GetSchedule(store, id)]
    /\ UNCHANGED <<store, now, passVars, delivered, reg, calc, drv>>

\* db.update_schedule(id, **data)
UpdateScheduleCall ==
    /\ api = NoCall
    /\ \E id \in IdInputs, data \in UpdateInputs(now) :
          LET u == UpdateScheduleOp(store, id, data) IN
          /\ store' = u.store
          /\ api' = [op |-> "update", id |-> id, ret |-> u.ret]
    /\ UNCHANGED <<now, passVars, delivered, reg, calc, drv>>

\* db.cancel_schedule(id)
CancelScheduleCall ==
    /\ api = NoCall
    /\ \E id \in IdInputs :
          LET c == CancelScheduleOp(store, id) IN
          /\ store' = c.store
          /\ api' = [op |-> "cancel", id |-> id, ret |-> c.ret]
    /\ UNCHANGED <<now, passVars, delivered, reg, calc, drv>>

\* cli.cancel_prompt({"id": text})
CancelPromptCall ==
    /\ api = NoCall
    /\ \E text \in IdTexts :
          LET c == CancelPromptOp(store, text) IN
          /\ store' = c.store
          /\ api' = [op |-> "cancel_prompt", id |-> text, ret |-> c.result]
    /\ UNCHANGED <<now, passVars, delivered, reg, calc, drv>>

\* The agent_id argument of list_schedules: no filter, or an agent.
AgentFilters == {""} \cup Agents

\* db.list_schedules(agent_id, active_only)
ListSchedulesCall ==
    /\ api = NoCall
    /\ \E agent \in AgentFilters, activeOnly \in BOOLEAN :
          \E res \in ListSchedules(store, agent, activeOnly) :
              api' = [op |-> "list", agent_id |-> agent, active_only |-> activeOnly, ret |-> res]
    /\ UNCHANGED <<store, now, passVars, delivered, reg, calc, drv>>

\* The caller has taken the return value.
ApiReturn ==
    /\ api # NoCall
    /\ api' = NoCall
    /\ UNCHANGED <<store, now, passVars, delivered, reg, calc, drv>>

\* A command of cli.main starts when no call and no single-shot pass is
\* in progress.
MainIdle == api = NoCall /\ pc["cli"] = "idle"

\* The register command lines: every who and when, with validation skipped
\* and no cap, or validated with a cap.
MainRegisterArgs ==
    {who @@ when @@ opt : who \in WhoArgs, when \in WhenArgs,
        opt \in {[skip_validation |-> TRUE, max_repetitions |-> None, start_at |-> NoText],
                 [skip_validation |-> FALSE, max_repetitions |-> 2, start_at |-> NoText]}}

\* python cli.py register ...
MainRegister ==
    /\ MainIdle
    /\ \E args \in MainRegisterArgs, agentValid \in BOOLEAN :
          LET r == RegisterPromptOp(store, args, agentValid, now)
          IN /\ Len(r.store) <= MaxSchedules
             /\ store' = r.store
             /\ api' = MainExit("register", r.result)
    /\ UNCHANGED <<now, passVars, delivered, reg, calc, drv>>

\* python cli.py list [--agent-id A] [--all]
MainList ==
    /\ MainIdle
    /\ \E agent \in AgentFilters, showAll \in BOOLEAN, raises \in BOOLEAN :
          \E result \in ListPromptsOp(store, agent, showAll, raises) :
              api' = MainExit("list", result)
    /\ UNCHANGED <<store, now, passVars, delivered, reg, calc, drv>>

\* python cli.py cancel --id TEXT
MainCancel ==
    /\ MainIdle
    /\ \E text \in IdTexts :
          LET c == CancelPromptOp(store, text) IN
          /\ store' = c.store
          /\ api' = MainExit("cancel", c.result)
    /\ UNCHANGED <<now, passVars, delivered, reg, calc, drv>>

\* python cli.py test
MainTest ==
    /\ MainIdle
    /\ \E outcome \in GatewayOutcomes : api' = MainExit("test", TestLettaConnection(outcome))
    /\ UNCHANGED <<store, now, passVars, delivered, reg, calc, drv>>

\* python cli.py agents
MainAgents ==
    /\ MainIdle
    /\ \E outcome \in GatewayOutcomes : api' = MainExit("agents", ListAvailableAgents(outcome))
    /\ UNCHANGED <<store, now, passVars, delivered, reg, calc, drv>>

\* python cli.py execute: execute_due_prompts starts.
MainExecuteBegin == MainIdle /\ BeginPass("cli")

\* python cli.py execute: one iteration of the pass.
MainExecuteStep == Step("cli")

\* python cli.py execute: execute_due_prompts has returned its results.
MainExecuteReturn ==
    /\ pc["cli"] = "running"
    /\ idx["cli"] > Len(due["cli"])
    /\ api' = MainExit("execute", ExecutePromptsResult(executed["cli"]))
    /\ pc' = [pc EXCEPT !["cli"] = "idle"]
    /\ due' = [due EXCEPT !["cli"] = <<>>]
    /\ idx' = [idx EXCEPT !["cli"] = 1]
    /\ executed' = [executed EXCEPT !["cli"] = <<>>]
    /\ ref' = [ref EXCEPT !["cli"] = 0]
    /\ calls' = [calls EXCEPT !["cli"] = <<>>]
    /\ UNCHANGED <<store, now, delivered, reg, calc, drv>>

\* python cli.py execute: get_due_schedules raised, caught at cli.py:221.
MainExecuteRaises ==
    /\ MainIdle
    /\ api' = MainExit("execute", RegError("Failed to execute prompts"))
    /\ UNCHANGED <<store, now, passVars, delivered, reg, calc, drv>>

NextMain ==
    \/ Tick
    \/ AddSchedule
    \/ MainRegister
    \/ MainList
    \/ MainCancel
    \/ MainTest
    \/ MainAgents
    \/ MainExecuteBegin
    \/ MainExecuteStep
    \/ MainExecuteReturn
    \/ MainExecuteRaises
    \/ ApiReturn

SpecMain == Init /\ [][NextMain]_vars

NextStore ==
    \/ Tick
    \/ AddSchedule
    \/ GetScheduleCall
    \/ UpdateScheduleCall
    \/ CancelScheduleCall
    \/ CancelPromptCall
    \/ ListSchedulesCall
    \/ ApiReturn

SpecStore == Init /\ [][NextStore]_vars

\* ------------------------------------------------------ PromptScheduler
\* start() as it would be without the test of the running flag.
StartedStateUnguarded(d) ==
    [d EXCEPT !.sched = "started", !.running = TRUE, !.elapsed = 0, !.fired = 0,
              !.created = @ + 1, !.jobs = 1]

\* start(), lines 132-151: a running scheduler is left alone; otherwise a
\* BackgroundScheduler with one interval job is started. A new scheduler
\* starts a new trigger: its intervals and firings count from this start.
StartedState(d) ==
    IF d.running THEN d
    ELSE [d EXCEPT !.sched = "started", !.running = TRUE, !.elapsed = 0, !.fired = 0,
                   !.created = @ + 1, !.jobs = 1]

\* add_job with IntervalTrigger(seconds=interval_seconds) and no start date:
\* the k-th firing is due once k intervals have elapsed since start.
FiringsDue(elapsed) == elapsed

\* _execute_job as it would be if the exception took the scheduler down.
AfterJobErrorStops(d) ==
    [d EXCEPT !.caught = @ + 1, !.sched = "shutdown", !.running = FALSE]

\* _execute_job, lines 170-171: the exception is logged and the job returns.
AfterJobError(d) == [d EXCEPT !.caught = @ + 1]

\* stop(), lines 155-160: nothing when not running; otherwise shutdown() is
\* called, after which the timer fires no more.
StopCalled(d, passRunning) ==
    IF ~d.running THEN d
    ELSE [d EXCEPT !.sched = "stopping", !.stops = @ + 1, !.midpass = passRunning]

\* shutdown as it would be with wait=False.
ShutdownDoesNotWait(pcLoop) == TRUE

\* scheduler.shutdown() with its default wait=True returns when the job that
\* is executing has returned.
ShutdownWaits(pcLoop) == pcLoop = "idle"

\* stop() as it would be if it only cleared the running flag.
StoppedStateKeepsScheduler(d) == [d EXCEPT !.sched = "started", !.running = FALSE]

\* stop(), lines 160-161, after shutdown() has returned.
StoppedState(d) ==
    IF d.sched = "stopping" THEN [d EXCEPT !.sched = "shutdown", !.running = FALSE] ELSE d

\* What can end the while loop of run_loop: the stop signal, or another
\* exception raised by the sleep.
LoopExceptions == {"KeyboardInterrupt", "Exception"}

\* Schedules are added before the loop is started.
LoopAdd == drv.loop = "new" /\ AddSchedule

\* run_loop, lines 175-179: start(), then the sleep loop.
RunLoopStart ==
    /\ drv.loop = "new"
    /\ drv' = [StartedState(drv) EXCEPT !.loop = "sleeping"]
    /\ UNCHANGED <<store, now, passVars, delivered, reg, api, calc>>

\* One more interval of the trigger has elapsed.
IntervalElapse ==
    /\ drv.sched = "started"
    /\ drv.elapsed < MaxIntervals
    /\ drv' = [drv EXCEPT !.elapsed = @ + 1]
    /\ UNCHANGED <<store, now, passVars, delivered, reg, api, calc>>

\* The timer fires the job: it is skipped while the previous instance is
\* still executing (max_instances is 1); otherwise _execute_job calls
\* execute_due_prompts, whose due-set query either raises, which
\* _execute_job catches, or starts the pass.
JobFire ==
    /\ drv.sched = "started"
    /\ drv.fired < FiringsDue(drv.elapsed)
    /\ IF pc["loop"] = "running"
       THEN /\ drv' = [drv EXCEPT !.fired = @ + 1]
            /\ UNCHANGED passVars
       ELSE \E queryRaises \in BOOLEAN :
              IF queryRaises
              THEN /\ drv' = AfterJobError([drv EXCEPT !.fired = @ + 1])
                   /\ UNCHANGED passVars
              ELSE /\ drv' = [drv EXCEPT !.fired = @ + 1]
                   /\ pc' = [pc EXCEPT !["loop"] = "running"]
                   /\ due' = [due EXCEPT !["loop"] = GetDueSchedules(store, now)]
                   /\ ref' = [ref EXCEPT !["loop"] = now]
                   /\ UNCHANGED <<idx, executed, calls>>
    /\ UNCHANGED <<store, now, delivered, reg, api, calc>>

\* The pass of the job that is executing.
JobPass == Step("loop") \/ EndPass("loop")

\* run_loop, lines 180-183: the sleep raises; finally calls stop().
LoopRaises ==
    /\ drv.loop = "sleeping"
    /\ \E e \in LoopExceptions :
          drv' = [StopCalled(drv, pc["loop"] = "running") EXCEPT !.loop = "stopping", !.exc = e]
    /\ UNCHANGED <<store, now, passVars, delivered, reg, api, calc>>

\* stop() returns and run_loop is left.
StopReturns ==
    /\ drv.loop = "stopping"
    /\ drv.sched = "stopping" => ShutdownWaits(pc["loop"])
    /\ drv' = [StoppedState(drv) EXCEPT !.loop = "done"]
    /\ UNCHANGED <<store, now, passVars, delivered, reg, api, calc>>

NextLoop ==
    \/ LoopAdd
    \/ RunLoopStart
    \/ IntervalElapse
    \/ JobFire
    \/ JobPass
    \/ LoopRaises
    \/ StopReturns

SpecLoop == Init /\ [][NextLoop]_vars

\* The loop and, from another process, the single-shot execute command of
\* cli.execute_prompts over the same database.
NextLoopAndCli ==
    \/ NextLoop
    \/ Pass("cli")

SpecLoopAndCli == Init /\ [][NextLoopAndCli]_vars

\* The PromptScheduler object driven by start() and stop() calls, as its
\* unit tests drive it, while its timer and its job run.
\* scheduler.start()
SchedulerStart ==
    /\ drv.loop = "new"
    /\ api = NoCall
    /\ drv.running \/ drv.created < MaxStarts
    /\ drv' = StartedState(drv)
    /\ api' = [op |-> "start", was_running |-> drv.running]
    /\ UNCHANGED <<store, now, passVars, delivered, reg, calc>>

\* start() has returned.
SchedulerStartReturns ==
    /\ api # NoCall
    /\ api.op = "start"
    /\ api' = NoCall
    /\ UNCHANGED <<store, now, passVars, delivered, reg, calc, drv>>

\* scheduler.stop() is called.
SchedulerStop ==
    /\ drv.loop = "new"
    /\ api = NoCall
    /\ drv' = StopCalled(drv, pc["loop"] = "running")
    /\ api' = [op |-> "stop", was_running |-> drv.running]
    /\ UNCHANGED <<store, now, passVars, delivered, reg, calc>>

\* stop() returns, after shutdown() has returned when it was called.
SchedulerStopReturns ==
    /\ api # NoCall
    /\ api.op = "stop"
    /\ drv.sched = "stopping" => ShutdownWaits(pc["loop"])
    /\ drv' = StoppedState(drv)
    /\ api' = NoCall
    /\ UNCHANGED <<store, now, passVars, delivered, reg, calc>>

NextScheduler ==
    \/ LoopAdd
    \/ SchedulerStart
    \/ SchedulerStartReturns
    \/ SchedulerStop
    \/ SchedulerStopReturns
    \/ IntervalElapse
    \/ JobFire
    \/ JobPass

SpecScheduler == Init /\ [][NextScheduler]_vars

\* ---------------------------------------------------- next-run computations
\* The suffixes an interval string is written with; none means seconds.
IntervalSuffixes == {<<"s">>, <<"m">>, <<"h">>, <<>>}

\* calculate_next_run_for_schedule(schedule) for an interval schedule whose
\* value is the number n written with the suffix sfx.
ComputeInterval ==
    /\ \E n \in 0..MaxNumber, sfx \in IntervalSuffixes :
          LET schedule == [schedule_type |-> "interval", schedule_value |-> NatText(n) \o sfx]
          IN  calc' = [fn |-> "interval", n |-> n, suffix |-> sfx, t |-> now,
                       out |-> CalculateNextRunForSchedule(schedule, now)]
    /\ UNCHANGED <<store, now, passVars, delivered, reg, api, drv>>

\* calculate_next_run(cron_expr, base_time) for the expression "*/k".
ComputeCron ==
    /\ \E k \in 1..MaxPeriod, base \in 0..MaxBase :
          LET e == <<"*", "/">> \o NatText(k)
          IN  calc' = [fn |-> "cron", e |-> e, t |-> base, out |-> CalculateNextRun(e, base)]
    /\ UNCHANGED <<store, now, passVars, delivered, reg, api, drv>>

NextCalc ==
    \/ Tick
    \/ ComputeInterval
    \/ ComputeCron

SpecCalc == Init /\ [][NextCalc]_vars

\* ------------------------------------------------------ a gateway that hangs
\* send_prompt_to_agent, lines 49-52: messages.create is called without a
\* timeout; when the remote end never answers the call does not return and
\* the pass stays inside it.
GatewayHangs(p) ==
    /\ pc[p] = "running"
    /\ idx[p] <= Len(due[p])
    /\ pc' = [pc EXCEPT ![p] = "blocked"]
    /\ UNCHANGED <<store, now, due, idx, executed, ref, calls, delivered, reg, api, calc, drv>>

NextHang ==
    \/ Tick
    \/ AddSchedule
    \/ Pass("cli")
    \/ GatewayHangs("cli")

SpecHang == Init /\ [][NextHang]_vars

\* ------------------------------------------------------------ properties
Range(seq) == {seq[k] : k \in 1..Len(seq)}

\* Executor p has just run one iteration of the loop, for schedule Cur(p).
Stepped(p) == pc[p] = "running" /\ Len(calls'[p]) = Len(calls[p]) + 1

Cur(p) == due[p][idx[p]]

\* The gateway returned success in the iteration just run.
SentOk(p) == calls'[p][Len(calls'[p])].ok

\* The results appended by the iteration just run.
NewResults(p) == SubSeq(executed'[p], Len(executed[p]) + 1, Len(executed'[p]))

ResultsFor(p, id) == {r \in Range(executed[p]) : r.id = id}

\* C1. Retry on failure: an iteration whose gateway call failed leaves the
\* stored schedule as it was except for last_run (active, next_run and every
\* other column keep their values), appends only results with
\* delivered = FALSE that carry the unchanged next_run, and a schedule that is
\* still active is in the due set of a pass that would start now.
RetryOnFailure ==
    [][\A p \in Executors :
          (Stepped(p) /\ ~SentOk(p)) =>
              LET id == Cur(p).id IN
              /\ store'[id].active = store[id].active
              /\ store'[id].next_run = store[id].next_run
              /\ \A c \in Columns \ {"last_run"} : store'[id][c] = store[id][c]
              /\ Len(executed'[p]) > Len(executed[p])
              /\ \A r \in Range(NewResults(p)) :
                    /\ r.id = id
                    /\ r.delivered = FALSE
                    /\ r.next_run = IsoFormat(store[id].next_run)
              /\ store'[id].active => store'[id] \in Range(GetDueSchedules(store', now'))]_vars

\* C1 witness: a pass has processed a schedule whose delivery failed; the
\* stored schedule is active with the next_run it was selected with, its
\* last_run is set, its result says delivered = FALSE, and it is due now.
RetryOnFailureWitness ==
    \E p \in Executors : \E k \in 1..Len(calls[p]) :
        /\ pc[p] = "running"
        /\ ~calls[p][k].ok
        /\ LET id == due[p][k].id IN
           /\ store[id].active
           /\ store[id].next_run = due[p][k].next_run
           /\ store[id].last_run # None
           /\ \E r \in ResultsFor(p, id) : r.delivered = FALSE /\ r.next_run = IsoFormat(store[id].next_run)
           /\ IsDue(store[id], now)

\* C2. Once no pass is running, a once schedule whose prompt has been
\* delivered successfully is inactive (so no later pass selects it or
\* delivers it again).
OnceDeliveredIsInactive ==
    (\A p \in Executors : pc[p] = "idle") =>
        \A i \in Ids(store) :
            (store[i].schedule_type = "once" /\ delivered[i] >= 1) => ~store[i].active

\* The arguments of a registration of a bounded interval schedule that
\* passes every validation of register_prompt.
ValidBoundedInterval(args) ==
    /\ args.agent_id # "" /\ args.prompt # ""
    /\ args.time = NoText /\ args.cron = NoText
    /\ IntervalValid(args.every) /\ IntervalSeconds(args.every) > 0
    /\ args.skip_validation
    /\ args.max_repetitions # None /\ args.max_repetitions > 0
    /\ args.start_at = NoText

\* C3. Bounded interval: registering an interval schedule with
\* max_repetitions = N creates a stored schedule that carries the cap N and
\* is active exactly while it has had fewer than N successful deliveries.
BoundedIntervalExhausts ==
    (reg # NoCall /\ ValidBoundedInterval(reg.args)) =>
        /\ "status" \in DOMAIN reg.result
        /\ reg.result.id \in Ids(store)
        /\ LET row == store[reg.result.id] IN
           /\ HasAttr(row, "max_repetitions")
           /\ row.max_repetitions = reg.args.max_repetitions
           /\ row.active <=> delivered[row.id] < row.max_repetitions

\* C4. Failure isolation: while a pass runs, every schedule of the due set
\* before the loop position has had its own gateway call (with its own agent
\* and prompt) and has its own result, whatever happened to the schedules
\* before it; a schedule whose delivery failed and whose update did not raise
\* has its last_run recorded.
FailureIsolation ==
    \A p \in Executors :
        pc[p] = "running" =>
            /\ idx[p] <= Len(due[p]) + 1
            /\ Len(calls[p]) = idx[p] - 1
            /\ \A k \in 1..Len(calls[p]) :
                  /\ calls[p][k].agent_id = due[p][k].agent_id
                  /\ calls[p][k].prompt_text = due[p][k].prompt_text
                  /\ ResultsFor(p, due[p][k].id) # {}
                  /\ (~calls[p][k].ok /\ Cardinality(ResultsFor(p, due[p][k].id)) = 1)
                        => store[due[p][k].id].last_run # None

\* C4 witness: a pass over two due schedules has finished its loop; the
\* processing of the first one raised, and the second one still got its
\* gateway call, its result and its update.
FailureIsolationWitness ==
    \E p \in Executors :
        /\ pc[p] = "running"
        /\ Len(due[p]) = 2
        /\ idx[p] = 3
        /\ \E r \in ResultsFor(p, due[p][1].id) : r.error \in {"AttributeError", "OperationalError"}
        /\ Len(calls[p]) = 2
        /\ ~calls[p][2].ok
        /\ ResultsFor(p, due[p][2].id) = {FailedResult(due[p][2])}
        /\ store[due[p][2].id].last_run = now

\* C5. At-least-once delivery with progress: an iteration whose gateway call
\* succeeded advances the schedule (next_run moved forward, or deactivated).
DeliveryAdvancesSchedule ==
    [][\A p \in Executors :
          (Stepped(p) /\ SentOk(p)) =>
              \/ store'[Cur(p).id].next_run > store[Cur(p).id].next_run
              \/ ~store'[Cur(p).id].active]_vars

\* C6. The stored repetition_count of every schedule equals the number of
\* successful deliveries made for it so far.
RepetitionCountCountsDeliveries ==
    \A i \in Ids(store) :
        /\ HasAttr(store[i], "repetition_count")
        /\ store[i].repetition_count = delivered[i]

LastRunAlwaysRecorded ==
    [][\A p \in Executors :
          (Stepped(p) /\ \A r \in Range(NewResults(p)) : r.error # "OperationalError")
              => store'[Cur(p).id].last_run = now]_vars

\* C9. Due-set selection: the due set a pass selects at instant now is
\* exactly the stored schedules with active = TRUE and next_run <= now, each
\* once, as stored.
DueSetSelection ==
    [][\A p \in Executors :
          (pc[p] = "idle" /\ pc'[p] = "running") =>
              /\ {due'[p][k].id : k \in 1..Len(due'[p])}
                    = {i \in Ids(store) : store[i].active /\ store[i].next_run <= now}
              /\ Len(due'[p]) = Cardinality({i \in Ids(store) : store[i].active /\ store[i].next_run <= now})
              /\ \A k \in 1..Len(due'[p]) : due'[p][k] = store[due'[p][k].id]]_vars

\* C9 witness: a pass has just selected its due set; a schedule due exactly
\* at the instant of selection is in it, and an inactive schedule whose
\* next_run has passed is not.
DueSetSelectionWitness ==
    \E p \in Executors :
        /\ pc[p] = "running"
        /\ calls[p] = <<>>
        /\ ref[p] = now
        /\ \E k \in 1..Len(due[p]) : due[p][k].next_run = ref[p] /\ store[due[p][k].id] = due[p][k]
        /\ \E i \in Ids(store) :
              /\ ~store[i].active
              /\ store[i].next_run <= ref[p]
              /\ \A k \in 1..Len(due[p]) : due[p][k].id # i

\* C10. When a pass in which every delivery succeeded has finished its loop,
\* every cron or interval schedule of its due set that is still active has
\* next_run strictly after the instant at which the due set was selected.
NotImmediatelyDueAgain ==
    \A p \in Executors :
        (/\ pc[p] = "running"
         /\ idx[p] > Len(due[p])
         /\ Len(calls[p]) = Len(due[p])
         /\ \A k \in 1..Len(calls[p]) : calls[p][k].ok)
        => \A k \in 1..Len(due[p]) :
              LET row == store[due[p][k].id] IN
              (row.schedule_type \in {"cron", "interval"} /\ row.active)
                  => row.next_run > ref[p]

\* C11. Once no pass is running, the stored record of a once schedule whose
\* prompt has been delivered successfully is terminal: active is false and
\* next_run is None.
OnceRoundTrip ==
    (\A p \in Executors : pc[p] = "idle") =>
        \A i \in Ids(store) :
            (store[i].schedule_type = "once" /\ delivered[i] >= 1)
                => (store[i].active = FALSE /\ store[i].next_run = None)

\* The store or cancel call made by the current step.
Called(op) == api = NoCall /\ api' # NoCall /\ api'.op = op

\* C12. Cancelling an existing schedule sets its active column to false,
\* leaves every other column of that schedule as it was, and leaves every
\* other schedule as it was.
CancelFrame ==
    [][(Called("cancel") /\ api'.id \in Ids(store)) =>
          /\ Len(store') = Len(store)
          /\ store'[api'.id].active = FALSE
          /\ \A c \in Columns \ {"active"} : store'[api'.id][c] = store[api'.id][c]
          /\ DOMAIN store'[api'.id] = Columns
          /\ \A i \in Ids(store) \ {api'.id} : store'[i] = store[i]]_vars

\* C12 witness: a cancel call has just returned for a schedule that has run
\* before; the schedule is inactive with its next_run and last_run in place,
\* and the other schedule is still active.
CancelFrameWitness ==
    /\ api # NoCall
    /\ api.op = "cancel"
    /\ api.ret = TRUE
    /\ Len(store) = 2
    /\ store[api.id].active = FALSE
    /\ store[api.id].last_run # None
    /\ store[api.id].next_run # None
    /\ \E i \in Ids(store) \ {api.id} : store[i].active

\* C13. A cancel command for an existing schedule that is already inactive
\* does not fail, leaves the schedule inactive, and returns a result that
\* differs from the result of the cancel that deactivated it.
DeactivateIdempotence ==
    [][(/\ Called("cancel_prompt")
        /\ IntValid(api'.id)
        /\ IntOf(api'.id) \in Ids(store)
        /\ store[IntOf(api'.id)].active = FALSE) =>
          /\ store'[IntOf(api'.id)].active = FALSE
          /\ "error" \notin DOMAIN api'.ret
          /\ api'.ret # CancelSuccess(IntOf(api'.id))]_vars

\* C14. get_schedule, update_schedule and cancel_schedule called with an id
\* that is not in the store return the not-found value (None for get, False
\* for update and cancel) and leave the store as it was.
UnknownId ==
    [][\A op \in {"get", "update", "cancel"} :
          (Called(op) /\ api'.id \notin Ids(store)) =>
              /\ store' = store
              /\ api'.ret = (IF op = "get" THEN None ELSE FALSE)]_vars

\* C14 witness: a cancel call for an id that is not in a store holding a
\* schedule has returned False, and the schedule is still active.
UnknownIdWitness ==
    /\ api # NoCall
    /\ api.op = "cancel"
    /\ api.id \notin Ids(store)
    /\ api.ret = FALSE
    /\ store # <<>>
    /\ \A i \in Ids(store) : store[i].active

\* The register_prompt call made by the current step.
Registered == reg = NoCall /\ reg' # NoCall

Rejected(result) == "error" \in DOMAIN result

\* C15. A register_prompt call that returns an error leaves the store as it
\* was.
RegistrationAllOrNothing ==
    [][(Registered /\ Rejected(reg'.result)) => store' = store]_vars

\* C15 witness: a request that is valid up to its max_repetitions, which is
\* negative, has been rejected by the last validation before the insert, and
\* the store holds nothing.
RegistrationAllOrNothingWitness ==
    /\ reg # NoCall
    /\ reg.args.max_repetitions = -1
    /\ reg.result = RegError("max-repetitions must be a positive integer")
    /\ store = <<>>

\* The request reaches the schedule branch of register_prompt: agent and
\* prompt are given, exactly one schedule option is given, and agent
\* validation did not fail.
ReachesScheduleBranch(args, result) ==
    /\ args.agent_id # "" /\ args.prompt # ""
    /\ CountTruthy(args.time, args.cron, args.every) = 1
    /\ result # RegError("Agent validation failed")

\* The instant a request names explicitly: its --time, or the --start-at of
\* an interval request; None when it names no instant that parses.
ExplicitInstant(args) ==
    IF Truthy(args.time)
    THEN IF DateValid(args.time) THEN DateParse(args.time) ELSE None
    ELSE IF Truthy(args.every) /\ IntervalValid(args.every)
              /\ Truthy(args.start_at) /\ DateValid(args.start_at)
    THEN DateParse(args.start_at)
    ELSE None

RejectedByValidation(result) ==
    Rejected(result) /\ result # RegError("Failed to register prompt")

ValidRequest(args, t) ==
    /\ args.agent_id # "" /\ args.prompt # ""
    /\ CountTruthy(args.time, args.cron, args.every) = 1
    /\ args.skip_validation
    /\ ScheduleFromArgs(args, t).kind = "ok"
    /\ Truthy(args.every) => IntervalSeconds(args.every) > 0
    /\ args.max_repetitions = None \/ args.max_repetitions > 0

\* C19. A registration of a valid request succeeds and adds exactly one
\* schedule to the store: its id is the returned id and was not in use, it is
\* active, its repetition_count is 0, its last_run is None and its next_run
\* is the one returned to the caller; the schedules already stored are as
\* they were.
RegistrationCreatesSchedule ==
    [][(Registered /\ ValidRequest(reg'.args, now)) =>
          /\ ~Rejected(reg'.result)
          /\ Len(store') = Len(store) + 1
          /\ SubSeq(store', 1, Len(store)) = store
          /\ LET row == store'[Len(store')] IN
                /\ row.id = reg'.result.id
                /\ row.id \notin Ids(store)
                /\ row.active = TRUE
                /\ HasAttr(row, "repetition_count") /\ row.repetition_count = 0
                /\ row.last_run = None
                /\ IsoFormat(row.next_run) = reg'.result.next_run]_vars

\* The (agent_id, prompt_text) pairs of a sequence of calls or of schedules.
Addressees(seq) == [k \in 1..Len(seq) |-> <<seq[k].agent_id, seq[k].prompt_text>>]

\* C20. Within a pass the gateway is called for the schedules of the due set
\* only, in their order, each with its own agent_id and prompt_text: the due
\* set holds each selected schedule once, every schedule in it was due when
\* it was selected, the calls made so far are addressed like the first
\* schedules of the due set, and when the loop has finished there is exactly
\* one call per schedule of the due set.
GatewayOncePerDue ==
    \A p \in Executors :
        pc[p] = "running" =>
            /\ \A j, k \in 1..Len(due[p]) : j # k => due[p][j].id # due[p][k].id
            /\ \A k \in 1..Len(due[p]) : IsDue(due[p][k], ref[p])
            /\ Len(calls[p]) <= Len(due[p])
            /\ Addressees(calls[p]) = SubSeq(Addressees(due[p]), 1, Len(calls[p]))
            /\ idx[p] > Len(due[p]) => Addressees(calls[p]) = Addressees(due[p])

\* C20 witness: a pass whose due set holds two schedules of different agents
\* has finished its loop with two gateway calls, the first addressed to the
\* first schedule and the second to the second.
GatewayOncePerDueWitness ==
    \E p \in Executors :
        /\ pc[p] = "running"
        /\ Len(due[p]) = 2
        /\ idx[p] > Len(due[p])
        /\ due[p][1].agent_id # due[p][2].agent_id
        /\ Len(calls[p]) = 2
        /\ calls[p][1].agent_id = due[p][1].agent_id
        /\ calls[p][2].agent_id = due[p][2].agent_id

\* The ids of a sequence of results or of schedules, in order.
IdsInOrder(seq) == [k \in 1..Len(seq) |-> seq[k].id]

\* C21. While a pass runs, its result list holds exactly one entry for each
\* schedule of the due set that the loop has processed, in the order of the
\* due set; when the loop has finished, that is one entry per schedule of
\* the due set.
OneResultPerScheduleInOrder ==
    \A p \in Executors :
        pc[p] = "running" =>
            IdsInOrder(executed[p]) = SubSeq(IdsInOrder(due[p]), 1, idx[p] - 1)

\* C22. Over every step of passes, cancels and the clock, the stored
\* next_run of a schedule does not decrease.
NextRunNeverDecreases ==
    [][\A i \in Ids(store) : store'[i].next_run >= store[i].next_run]_vars

\* C22 witness: a pass has processed a schedule that was due since before
\* the pass (one delivery succeeded, one failed), a schedule has been
\* cancelled, and the schedules hold the next_run they were due at.
NextRunNeverDecreasesWitness ==
    \E p \in Executors :
        /\ pc[p] = "running"
        /\ Len(due[p]) = 2
        /\ idx[p] > Len(due[p])
        /\ Len(calls[p]) = 2
        /\ calls[p][1].ok /\ ~calls[p][2].ok
        /\ ref[p] > due[p][2].next_run
        /\ \A k \in 1..2 : store[due[p][k].id].next_run = due[p][k].next_run
        /\ ~store[due[p][1].id].active

\* C23. The loop performs a pass first and waits afterwards: the first
\* firing of the job happens before any interval has elapsed since start,
\* and every later firing happens when exactly one more interval has elapsed
\* than at the firing before it.
PassFirstThenWait ==
    [][drv'.fired = drv.fired + 1 => drv.elapsed = drv.fired]_vars

\* C24. After an exception has escaped a pass and has been caught by the
\* job, the loop that is still sleeping has its scheduler started and is
\* running, and a firing that is due can still take place.
JobErrorKeepsLoopRunning ==
    (drv.caught >= 1 /\ drv.loop = "sleeping") =>
        /\ drv.sched = "started"
        /\ drv.running
        /\ drv.fired < FiringsDue(drv.elapsed) => ENABLED JobFire

\* C24 witness: the first firing ended in an exception that the job caught,
\* and the second firing has started a pass that has made a gateway call.
JobErrorKeepsLoopRunningWitness ==
    /\ drv.caught = 1
    /\ drv.fired = 2
    /\ drv.loop = "sleeping"
    /\ pc["loop"] = "running"
    /\ Len(calls["loop"]) >= 1

\* C25. Once run_loop has been left, whether by the stop signal or by
\* another exception, stop has shut the scheduler down exactly once, the
\* scheduler is shut down, running is false, and the timer cannot fire the
\* job any more.
CleanShutdown ==
    drv.loop = "done" =>
        /\ drv.exc \in LoopExceptions
        /\ drv.stops = 1
        /\ drv.sched = "shutdown"
        /\ drv.running = FALSE
        /\ ~ENABLED JobFire

\* C25 witness: the loop has been left because of an exception that is not
\* the stop signal, after one firing of the job and with another firing due
\* that will not take place.
CleanShutdownWitness ==
    /\ drv.loop = "done"
    /\ drv.exc = "Exception"
    /\ drv.stops = 1
    /\ drv.fired = 1
    /\ drv.fired < FiringsDue(drv.elapsed)

\* C26. At most one pass is in flight over the store at any time: no
\* schedule is in the due set of a pass that has not processed it yet while
\* another pass is running, be it another firing of the loop or a
\* single-shot execute.
AtMostOnePassInFlight ==
    \A p, q \in Executors :
        (p # q /\ pc[p] = "running" /\ pc[q] = "running") =>
            \A k \in idx[p]..Len(due[p]) :
                \A j \in 1..Len(due[q]) : due[q][j].id # due[p][k].id

\* C27. While stop is in progress and the pass of the loop is still running,
\* stop cannot return and the pass can take its next step; and when run_loop
\* has been left the pass has returned, which it does only after the last
\* schedule of its due set.
StopWaitsForPass ==
    /\ (drv.loop = "stopping" /\ pc["loop"] = "running") =>
            (~ENABLED StopReturns /\ ENABLED JobPass)
    /\ drv.loop = "done" => pc["loop"] = "idle"

\* C27 witness: the stop signal arrived while a pass was running, and
\* run_loop has been left with the pass returned.
StopWaitsForPassWitness ==
    /\ drv.loop = "done"
    /\ drv.exc = "KeyboardInterrupt"
    /\ drv.midpass
    /\ pc["loop"] = "idle"

\* C28. A pass that has started can always take its next step: it is never
\* held inside a gateway call, so it reaches the remaining schedules of its
\* due set and returns.
PassNeverStalls ==
    \A p \in Executors : pc[p] # "idle" => ENABLED Pass(p)

\* The number of seconds the suffix of an interval stands for.
UnitSeconds(sfx) ==
    IF sfx = <<"m">> THEN 60 ELSE IF sfx = <<"h">> THEN 3600 ELSE 1

\* C29. For an interval schedule whose value is the number N written with
\* the suffix s, m or h, or with no suffix, the next run computed at the
\* instant t is t + N * unit, where unit is 1, 60, 3600, and 1 for no suffix.
IntervalArithmetic ==
    (calc # NoCall /\ calc.fn = "interval") =>
        /\ calc.out.raised = FALSE
        /\ calc.out.value = calc.t + calc.n * UnitSeconds(calc.suffix)

\* C29 witness: the next run of a "12m" schedule computed at instant 1 is
\* 721.
IntervalArithmeticWitness ==
    /\ calc # NoCall
    /\ calc.fn = "interval"
    /\ calc.n = 12 /\ calc.suffix = <<"m">> /\ calc.t = 1
    /\ calc.out.value = 721

\* The instant t matches the expression "*/k".
CronMatches(e, t) == t % DigitsVal(SubSeq(e, 3, Len(e))) = 0

\* C30. The next run computed for a valid cron expression e and a base
\* instant t is strictly greater than t and matches e, and no instant
\* strictly between t and it matches e.
CronNextIsMinimal ==
    (calc # NoCall /\ calc.fn = "cron") =>
        /\ CronValid(calc.e)
        /\ calc.out > calc.t
        /\ CronMatches(calc.e, calc.out)
        /\ \A u \in (calc.t + 1)..(calc.out - 1) : ~CronMatches(calc.e, u)

\* C30 witness: for "*/5" and the base instant 10, which itself matches,
\* the next run is 15.
CronNextIsMinimalWitness ==
    /\ calc # NoCall
    /\ calc.fn = "cron"
    /\ calc.e = <<"*", "/", "5">>
    /\ calc.t = 10
    /\ calc.out = 15

\* C31. list(agent_id, active_only) returns exactly the stored schedules
\* that match the agent filter (all agents when no filter is given) and,
\* when active_only is true, are active, each once, with its stored fields,
\* ordered by next_run ascending; an inactive schedule appears only when
\* active_only is false.
ListReturnsMatchingInOrder ==
    [][Called("list") =>
          LET res == api'.ret
              wanted == {i \in Ids(store) :
                            /\ api'.agent_id # "" => store[i].agent_id = api'.agent_id
                            /\ api'.active_only => store[i].active}
          IN /\ store' = store
             /\ {res[k].id : k \in 1..Len(res)} = wanted
             /\ Len(res) = Cardinality(wanted)
             /\ \A k \in 1..Len(res) :
                   /\ res[k].agent_id = store[res[k].id].agent_id
                   /\ res[k].active = store[res[k].id].active
                   /\ DateParse(res[k].next_run) = store[res[k].id].next_run
                   /\ (~res[k].active => ~api'.active_only)
             /\ \A k \in 1..(Len(res) - 1) :
                   DateParse(res[k].next_run) <= DateParse(res[k + 1].next_run)]_vars

\* C31 witness: a list call without filters over two schedules, the first
\* stored one cancelled and due later than the second, has returned both,
\* the second stored one first.
ListReturnsMatchingInOrderWitness ==
    /\ api # NoCall
    /\ api.op = "list"
    /\ api.agent_id = ""
    /\ ~api.active_only
    /\ Len(store) = 2
    /\ ~store[1].active
    /\ store[1].next_run > store[2].next_run
    /\ Len(api.ret) = 2
    /\ api.ret[1].id = 2
    /\ api.ret[2].id = 1

\* The operation of a command succeeded: its result says so.
Succeeded(result) == "status" \in DOMAIN result /\ result.status = "success"

\* C32. For every command (register, list, cancel, execute, test, agents)
\* the exit code of the process is 0 exactly when the operation succeeded
\* and 1 whenever it failed, a failed connection reported by the test or
\* agents command included.
ExitCodeTellsSuccess ==
    (api # NoCall /\ api.op = "main") =>
        /\ api.exit \in {0, 1}
        /\ api.exit = 0 <=> Succeeded(api.result)

\* C33. In the result of a successful delivery, completed is true exactly
\* when the schedule was made inactive by this execution, whether it ended
\* by reaching its repetition cap or by being a one-time schedule.
CompletedTellsDeactivation ==
    [][\A p \in Executors :
          (Stepped(p) /\ SentOk(p)) =>
              \E r \in Range(NewResults(p)) :
                  /\ r.id = Cur(p).id
                  /\ r.delivered
                  /\ "completed" \in DOMAIN r
                  /\ r.completed <=> (store[Cur(p).id].active /\ ~store'[Cur(p).id].active)]_vars

\* The iteration just run reached update_schedule and the update did not
\* take effect: the delivery failed, so the update carried last_run = now,
\* and the stored last_run is not now.
UpdateFailed(p) == Stepped(p) /\ ~SentOk(p) /\ store'[Cur(p).id].last_run # now

\* C34. When the store update for one schedule fails during a pass, the
\* failure is reported in a result entry of that schedule, nothing of the
\* store is changed, the update is not tried again (one gateway call, the
\* loop moves on to the next due schedule, which is still processed), and
\* the schedule, if it is still active, is due for the next pass.
UpdateFailureContained ==
    [][\A p \in Executors :
          UpdateFailed(p) =>
              /\ \E r \in Range(NewResults(p)) :
                    r.id = Cur(p).id /\ ~r.delivered /\ r.error = "OperationalError"
              /\ store' = store
              /\ idx'[p] = idx[p] + 1
              /\ due'[p] = due[p]
              /\ pc'[p] = "running"
              /\ (idx[p] <= Len(due[p]) => ENABLED Step(p))'
              /\ store'[Cur(p).id].active => IsDue(store'[Cur(p).id], now)]_vars

\* C34 witness: a pass over two due schedules has finished its loop; the
\* update of the first one failed and is reported, the second one was
\* processed and updated after it, and the first one is still due.
UpdateFailureContainedWitness ==
    \E p \in Executors :
        /\ pc[p] = "running"
        /\ Len(due[p]) = 2
        /\ idx[p] = 3
        /\ due[p][1].last_run = None
        /\ \E r \in ResultsFor(p, due[p][1].id) : r.error = "OperationalError"
        /\ store[due[p][1].id].last_run = None
        /\ IsDue(store[due[p][1].id], now)
        /\ ResultsFor(p, due[p][2].id) = {FailedResult(due[p][2])}
        /\ store[due[p][2].id].last_run = now

\* The ids of the stored schedules.
StoredIds(st) == {st[k].id : k \in 1..Len(st)}

\* C35. No schedule record is ever removed: over register, cancel and
\* execution passes the set of stored ids only grows, and every schedule
\* stored before a step, cancelled and delivered ones included, is returned
\* afterwards by get and by list with active_only = false.
RecordsNeverRemoved ==
    [][/\ StoredIds(store) \subseteq StoredIds(store')
       /\ \A i \in StoredIds(store) :
             /\ i \in Ids(store')
             /\ GetSchedule(store', i).id = i
             /\ \A l \in ListSchedules(store', "", FALSE) :
                   \E k \in 1..Len(l) : l[k].id = i]_vars

\* C35 witness: the store holds a cancelled schedule that has been run and a
\* one-time schedule whose prompt has been delivered; get and list return
\* both.
RecordsNeverRemovedWitness ==
    /\ Len(store) = 2
    /\ ~store[1].active
    /\ store[1].last_run # None
    /\ store[2].schedule_type = "once"
    /\ delivered[2] >= 1
    /\ GetSchedule(store, 1) = store[1]
    /\ \A l \in ListSchedules(store, "", FALSE) : Len(l) = 2

\* A schedule has just been added to the store.
Added == Len(store') = Len(store) + 1

StartStopStateMachine ==
    [][/\ Called("start") =>
             /\ drv.running => drv' = drv
             /\ ~drv.running => drv'.created = drv.created + 1
             /\ drv'.running /\ drv'.sched = "started" /\ drv'.jobs = 1
       /\ (Called("stop") /\ ~drv.running) => drv' = drv
       /\ (api # NoCall /\ api.op = "stop" /\ api' = NoCall) =>
             /\ ~drv'.running
             /\ api.was_running => drv'.sched = "shutdown"
             /\ ~api.was_running => drv' = drv]_vars

\* C37 witness: start has been called on a scheduler that was running, whose
\* timer has already fired; it is still the first scheduler with its one job.
StartStopStateMachineWitness ==
    /\ api # NoCall
    /\ api.op = "start"
    /\ api.was_running
    /\ drv.running
    /\ drv.created = 1
    /\ drv.jobs = 1
    /\ drv.fired = 1

\* C38. Once the active flag of a schedule is false it never becomes true
\* again, under any interleaving of cancels and passes; in particular the
\* update a pass makes for a schedule that was cancelled after the pass
\* selected it leaves the schedule inactive.
InactiveIsFinal ==
    [][/\ \A i \in Ids(store) : ~store[i].active => ~store'[i].active
       /\ \A p \in Executors :
             (Stepped(p) /\ Cur(p).active /\ ~store[Cur(p).id].active) =>
                 ~store'[Cur(p).id].active]_vars

\* C38 witness: a pass selected an active schedule that had never run; the
\* schedule has been cancelled and the pass has recorded its run, and the
\* schedule is inactive.
InactiveIsFinalWitness ==
    \E p \in Executors :
        /\ pc[p] = "running"
        /\ idx[p] = 2
        /\ due[p][1].active
        /\ due[p][1].last_run = None
        /\ ~store[due[p][1].id].active
        /\ store[due[p][1].id].last_run = ref[p]
        /\ ResultsFor(p, due[p][1].id) = {FailedResult(due[p][1])}

\* C39. The delivered flag of a result is faithful: an iteration appends a
\* result for its schedule, and every result it appends has delivered = TRUE
\* exactly when the gateway call of that iteration returned success, also
\* when a later step for the same schedule fails.
DeliveredFlagFaithful ==
    [][\A p \in Executors :
          Stepped(p) =>
              /\ NewResults(p) # <<>>
              /\ \A r \in Range(NewResults(p)) :
                    r.id = Cur(p).id /\ (r.delivered <=> SentOk(p))]_vars

====
